---- MODULE Spec2Model ----
(***************************************************************************)
(* recommonmark/parser.py: CommonMarkParser, the conversion of a CommonMark *)
(* AST into a docutils document tree.                                       *)
(*                                                                          *)
(* One conversion is parse(): the set-up (lines 23-28), then one step per   *)
(* (node, entering) event of ast.walker() (convert_ast, lines 32-40), each  *)
(* step being the whole handler the dispatcher selects, then finish_parse.  *)
(* An exception raised by a handler ends the conversion (phase "failed").   *)
(*                                                                          *)
(* Output nodes live in the sequence `nodes`; a node is named by its index, *)
(* None (0) is Python's None.  Strings that the code inspects (literals,    *)
(* names) are sequences of one-character strings.                           *)
(***************************************************************************)
EXTENDS Integers, Sequences, FiniteSets, TLC

VARIABLES
    phase,          \* "idle" | "walking" | "done" | "failed": position in parse()
    error,          \* the exception that ended the conversion, "" when none
    document,       \* self.document
    current_node,   \* self.current_node (the cursor)
    level_to_elem,  \* self._level_to_elem (the Section Level Map)
    nodes,          \* the docutils nodes reachable from the parser's fields
    open,           \* the walker's stack: indexes in `events` of the open enter events
    events,         \* history: the events dispatched so far in this conversion
    warnings,       \* the messages passed to warn()
    implicit,       \* the sections passed to document.note_implicit_target
    input,          \* the inputs of this run: node budget and node types of the ASTs
    ended           \* history: how the earlier conversions of this parser ended

vars == <<phase, error, document, current_node, level_to_elem, nodes, open,
          events, warnings, implicit, input, ended>>

None == 0

(***************************************************************************)
(* Bounds of the model.                                                     *)
(***************************************************************************)
MaxNodes == 3          \* AST nodes below the document node (Spec)
MaxDeepNodes == 4      \* the same, for the deeper nestings of SpecDeep
MaxTopLevelNodes == 4  \* the same, for the heading/paragraph streams of SpecTopLevel
MaxLevel == 3          \* heading levels are 1..MaxLevel
MaxParses == 2         \* documents parsed by one parser (SpecReparse)
MaxReparseNodes == 2   \* AST nodes below the document node (SpecReparse)
MaxCodeNodes == 2      \* AST nodes below the document node (SpecCodeBlock)
MaxNewlines == 2       \* newlines at the end of a code block literal (SpecCodeBlock)

(***************************************************************************)
(* The input AST (produced by CommonMark.Parser, line 27-28).               *)
(***************************************************************************)
Levels == 1..MaxLevel

TextLits == {<<"T">>, <<"b", " ">>}

\* Code blocks as <<is_fenced, info, literal>>: a fenced block with an info
\* string and an indented one,
PlainCodeBlocks == {<<TRUE, <<"p">>, <<"a", "\n">> >>, <<FALSE, <<>>, <<"a">> >>}

\* or every combination of fence, info string and literal, the literal empty
\* or "a", followed by up to MaxNewlines newlines.
Newlines(k) == [i \in 1..k |-> "\n"]

CodeLits == UNION {{Newlines(k), <<"a">> \o Newlines(k)} : k \in 0..MaxNewlines}

AllCodeBlocks == BOOLEAN \X {<<>>, <<"p">>} \X CodeLits

\* The container test of the AST library, mdnode.is_container() (line 53).
Containers == {"document", "block_quote", "list", "item", "paragraph", "heading",
               "emph", "strong", "link", "image", "custom_inline", "custom_block"}

BlockTypes == {"paragraph", "heading", "block_quote", "list", "code_block",
               "thematic_break", "html_block", "custom_block"}

InlineTypes == {"text", "softbreak", "linebreak", "emph", "strong", "link",
                "image", "html_inline", "custom_inline"}

\* Containers the CommonMark grammar never leaves empty.
NeverEmpty == {"paragraph", "list", "emph", "strong"}

ChildTypes(t) ==
    IF t \in {"document", "block_quote", "item", "custom_block"}
        THEN BlockTypes \cap input.types
    ELSE IF t = "list" THEN {"item"}
    ELSE IF t \in Containers THEN InlineTypes \cap input.types
    ELSE {}

\* An AST node: the fields the handlers read.  line is sourcepos[0][0], 0 when
\* sourcepos is None (inline nodes carry no source position).
MdNode(t, line) ==
    [t |-> t, level |-> 0, literal |-> <<>>, list_type |-> "", destination |-> <<>>,
     title |-> <<>>, is_fenced |-> FALSE, info |-> <<>>, line |-> line]

MdNodes(t, line) ==
    CASE t = "heading" -> {[MdNode(t, line) EXCEPT !.level = l] : l \in Levels}
      [] t = "text" -> {[MdNode(t, 0) EXCEPT !.literal = s] : s \in TextLits}
      [] t = "list" -> {[MdNode(t, line) EXCEPT !.list_type = k] : k \in {"bullet", "ordered"}}
      [] t \in {"link", "image"} ->
            {[MdNode(t, 0) EXCEPT !.destination = <<"u">>, !.title = s] : s \in {<<>>, <<"t">>}}
      [] t = "code_block" ->
            {[MdNode(t, line) EXCEPT !.is_fenced = f[1], !.info = f[2], !.literal = f[3]] :
                f \in input.code_blocks}
      [] t = "html_inline" ->
            {[MdNode(t, p) EXCEPT !.literal = <<"<">>] : p \in {0, line}}
      [] t \in BlockTypes \cup {"document"} -> {MdNode(t, line)}
      [] OTHER -> {MdNode(t, 0)}

AstCount == Cardinality({i \in 1..Len(events) : events[i].entering})

Top == events[open[Len(open)]].node

\* The CommonMark grammar puts no link inside a link, at any depth.
InsideLink == \E i \in 1..Len(open) : events[open[i]].node.t = "link"

\* ast.walker() (line 33): the events that can come next.  The first event
\* enters the document node; a leaf yields one entering event; a container
\* yields an exiting event after its children.
Walker ==
    IF phase # "walking" THEN {}
    ELSE IF events = <<>> THEN {[node |-> MdNode("document", 1), entering |-> TRUE]}
    ELSE IF open = <<>> THEN {}
    ELSE (IF Top.t \in NeverEmpty /\ open[Len(open)] = Len(events)
             THEN {}
             ELSE {[node |-> Top, entering |-> FALSE]})
         \cup
         (IF AstCount <= input.budget
             THEN {[node |-> n, entering |-> TRUE] :
                     n \in UNION {MdNodes(t, AstCount + 1) :
                                    t \in ChildTypes(Top.t) \
                                          (IF InsideLink THEN {"link"} ELSE {})}}
             ELSE {})

(***************************************************************************)
(* Dispatch (convert_ast, lines 34-40; default_depart, lines 54-55).        *)
(***************************************************************************)
\* The methods of CommonMarkParser named visit_* or depart_*.
Methods == {"visit_heading", "depart_heading", "visit_text", "visit_softbreak",
            "visit_paragraph", "visit_emph", "visit_strong", "visit_link",
            "visit_image", "visit_list", "visit_item", "visit_code_block",
            "visit_block_quote", "visit_html_inline", "visit_thematic_break"}

\* str.lower() on a type tag.  The AST library this parser is written for
\* (visit_block_quote, visit_html_inline) yields lower-case tags, which lower()
\* leaves alone; the tags of older AST libraries are camel case.
UpperTags == [Heading |-> "heading", Paragraph |-> "paragraph", Text |-> "text",
              Document |-> "document", Link |-> "link", Item |-> "item"]

Lower(t) == IF t \in DOMAIN UpperTags THEN UpperTags[t] ELSE t

HasAttr(name) == name \in Methods

\* lines 34-39: the name of the method convert_ast calls for an event.
Fn(ev) ==
    LET fn_prefix == IF ev.entering THEN "visit" ELSE "depart"
        fn_name == fn_prefix \o "_" \o Lower(ev.node.t)
        fn_default == "default_" \o fn_prefix
    IN IF HasAttr(fn_name) THEN fn_name ELSE fn_default

(***************************************************************************)
(* docutils nodes.                                                          *)
(***************************************************************************)
NewNode(kind) ==
    [kind |-> kind, parent |-> None, children |-> <<>>, lit |-> <<>>,
     names |-> <<>>, attrs |-> {}, line |-> 0]

\* Element.append(child) on the node store ns: the child's parent is set and
\* the child becomes the last child.
NodeAppend(ns, parent, child) ==
    [ns EXCEPT ![parent].children = Append(@, child), ![child].parent = parent]

\* The walker moves on: the event joins the history, the stack follows.
\* made is the output node the handler created for the event (None if none).
Advance(ev, made) ==
    /\ events' = Append(events, [node |-> ev.node, entering |-> ev.entering,
                                 before |-> current_node, made |-> made,
                                 fn |-> Fn(ev)])
    /\ open' = IF ~ev.entering THEN SubSeq(open, 1, Len(open) - 1)
               ELSE IF ev.node.t \in Containers THEN Append(open, Len(events) + 1)
               ELSE open

\* A handler raises: the exception leaves convert_ast and parse.  The nodes the
\* handler had created and not yet attached are unreferenced from then on, and
\* are not part of the state.
Raise(ev, exc) ==
    /\ phase' = "failed"
    /\ error' = exc
    /\ events' = Append(events, [node |-> ev.node, entering |-> ev.entering,
                                 before |-> current_node, made |-> None,
                                 fn |-> Fn(ev)])
    /\ UNCHANGED open

(***************************************************************************)
(* parse (lines 22-28) and finish_parse (line 30).                          *)
(***************************************************************************)
\* A variant of setup_sections that leaves the map as __init__ made it.
setup_sections_empty(doc) == <<>>

\* A variant of setup_sections that fills the map only when it is empty.
setup_sections_once(doc) == IF level_to_elem = <<>> THEN (0 :> doc) ELSE level_to_elem

\* lines 190-191
setup_sections(doc) == (0 :> doc)

\* parse() on a new document.  The caller keeps the tree of the conversion
\* before; the parser's own fields are assigned anew (lines 23-26).
Parse ==
    /\ \/ phase = "idle"
       \/ phase \in {"done", "failed"} /\ Len(ended) + 1 < input.parses
    /\ ended' = IF phase = "idle" THEN ended ELSE Append(ended, phase)
    /\ phase' = "walking"
    /\ error' = ""
    /\ nodes' = <<NewNode("document")>>
    /\ document' = 1
    /\ current_node' = 1
    /\ level_to_elem' = setup_sections(1)
    /\ open' = <<>>
    /\ events' = <<>>
    /\ warnings' = <<>>
    /\ implicit' = <<>>
    /\ UNCHANGED input

Finish ==
    /\ phase = "walking"
    /\ events # <<>>
    /\ open = <<>>
    /\ phase' = "done"
    /\ UNCHANGED <<error, document, current_node, level_to_elem, nodes, open,
                   events, warnings, implicit, input, ended>>

(***************************************************************************)
(* Default handlers (lines 43-58).                                          *)
(***************************************************************************)
default_visit ==
    \E ev \in Walker :
        /\ Fn(ev) = "default_visit"
        /\ Advance(ev, None)
        /\ UNCHANGED <<phase, error, document, current_node, level_to_elem, nodes,
                       warnings, implicit, input, ended>>

\* A variant of VisitorDefined that takes every container as handled.
VisitorDefined_any(mdnode) == TRUE

\* lines 54-55: hasattr(self, 'visit_' + mdnode.t); the tag is used as it is
\* here, and lower-cased in convert_ast.
VisitorDefined(mdnode) == HasAttr("visit_" \o mdnode.t)

\* lines 46-58
default_depart ==
    \E ev \in Walker :
        /\ Fn(ev) = "default_depart"
        /\ IF ev.node.t \in Containers
           THEN IF ~VisitorDefined(ev.node)
                THEN /\ warnings' = Append(warnings, ev.node.t)
                     /\ Advance(ev, None)
                     /\ UNCHANGED <<phase, error, current_node>>
                ELSE IF current_node = None
                THEN \* None.parent
                     /\ Raise(ev, "AttributeError")
                     /\ UNCHANGED <<current_node, warnings>>
                ELSE /\ current_node' = nodes[current_node].parent
                     /\ Advance(ev, None)
                     /\ UNCHANGED <<phase, error, warnings>>
           ELSE /\ Advance(ev, None)
                /\ UNCHANGED <<phase, error, current_node, warnings>>
        /\ UNCHANGED <<document, level_to_elem, nodes, implicit, input, ended>>

(***************************************************************************)
(* Section handling (lines 190-210).                                        *)
(***************************************************************************)
Max(S) == CHOOSE x \in S : \A y \in S : y <= x

\* A variant of LowerLevels that also takes the level itself.
LowerLevels_inclusive(map, level) ==
    {section_level \in DOMAIN map : level >= section_level}

\* lines 194-197: the keys max() ranges over.
LowerLevels(map, level) == {section_level \in DOMAIN map : level > section_level}

\* A variant of Prune that also drops the entry at level.
Prune_strict(map, level) ==
    [section_level \in {k \in DOMAIN map : k < level} |-> map[section_level]]

\* A variant of Prune that keeps every entry.
Prune_nothing(map, level) == map

\* lines 203-207
Prune(map, level) ==
    [section_level \in {k \in DOMAIN map : k <= level} |-> map[section_level]]

\* lines 193-207 on the node store and the map.  max() of an empty sequence
\* raises ValueError before anything is changed.
add_section(ns, map, section, level) ==
    IF LowerLevels(map, level) = {}
    THEN [ok |-> FALSE, nodes |-> ns, map |-> map, parent |-> None]
    ELSE LET parent_level == Max(LowerLevels(map, level))
             parent == map[parent_level]
             set == [k \in DOMAIN map \cup {level} |->
                        IF k = level THEN section ELSE map[k]]
         IN [ok |-> TRUE,
             nodes |-> NodeAppend(ns, parent, section),
             map |-> Prune(set, level),
             parent |-> parent]

\* lines 209-210
is_section_level(level, section) ==
    level \in DOMAIN level_to_elem /\ level_to_elem[level] = section

(***************************************************************************)
(* Headings (lines 60-92).                                                  *)
(***************************************************************************)
IsInstance(n, kind) == n # None /\ nodes[n].kind = kind

visit_heading ==
    \E ev \in Walker :
        /\ Fn(ev) = "visit_heading"
        /\ LET mdnode == ev.node
               \* lines 62-64
               cur == IF /\ IsInstance(current_node, "section")
                         /\ is_section_level(mdnode.level, current_node)
                      THEN nodes[current_node].parent
                      ELSE current_node
               title_node == Len(nodes) + 1
               new_section == Len(nodes) + 2
               \* lines 66-71
               created == nodes \o
                   <<[NewNode("title") EXCEPT !.line = mdnode.line],
                     [NewNode("section") EXCEPT !.line = mdnode.line]>>
               r == add_section(NodeAppend(created, new_section, title_node),
                                level_to_elem, new_section, mdnode.level)
           IN IF r.ok
              THEN /\ nodes' = r.nodes
                   /\ level_to_elem' = r.map
                   /\ current_node' = title_node
                   /\ Advance(ev, new_section)
                   /\ UNCHANGED <<phase, error>>
              ELSE /\ Raise(ev, "ValueError")
                   /\ current_node' = cur
                   /\ UNCHANGED <<nodes, level_to_elem>>
        /\ UNCHANGED <<document, warnings, implicit, input, ended>>

\* docutils astext(): a Text node is its text, an image its alt attribute, any
\* other element the texts of its children joined by its separator ("" for
\* a TextElement, two newlines for a plain Element such as pending_xref).
TextElements == {"title", "paragraph", "emphasis", "strong", "reference",
                 "literal_block", "raw"}

AttrOf(n, key, default) ==
    IF \E a \in nodes[n].attrs : a[1] = key
    THEN (CHOOSE a \in nodes[n].attrs : a[1] = key)[2]
    ELSE default

RECURSIVE astext(_)
RECURSIVE JoinText(_, _, _)
JoinText(kids, i, sep) ==
    IF i > Len(kids) THEN <<>>
    ELSE (IF i > 1 THEN sep ELSE <<>>) \o astext(kids[i]) \o JoinText(kids, i + 1, sep)

astext(n) ==
    IF nodes[n].kind = "Text" THEN nodes[n].lit
    ELSE IF nodes[n].kind = "image" THEN AttrOf(n, "alt", <<>>)
    ELSE JoinText(nodes[n].children, 1,
                  IF nodes[n].kind \in TextElements THEN <<>> ELSE <<"\n", "\n">>)

\* docutils fully_normalize_name(): ' '.join(name.lower().split())
Whitespace == {" ", "\n"}

LowerChar(c) == IF c = "T" THEN "t" ELSE c

RECURSIVE Collapse(_, _, _)
Collapse(s, out, gap) ==
    IF s = <<>> THEN out
    ELSE IF Head(s) \in Whitespace THEN Collapse(Tail(s), out, out # <<>>)
    ELSE Collapse(Tail(s),
                  (IF gap THEN Append(out, " ") ELSE out) \o <<LowerChar(Head(s))>>,
                  FALSE)

fully_normalize_name(s) == Collapse(s, <<>>, FALSE)

\* A variant of HeadingAssertion for a run with assertions off.
HeadingAssertion_off == TRUE

\* A variant of SectionOf that stays on the title.
SectionOf_title(title) == title

\* line 89
SectionOf(title) == nodes[title].parent

\* line 85
HeadingAssertion == IsInstance(current_node, "title")

depart_heading ==
    \E ev \in Walker :
        /\ Fn(ev) = "depart_heading"
        /\ IF ~HeadingAssertion
           THEN /\ Raise(ev, "AssertionError")
                /\ UNCHANGED <<current_node, nodes, implicit>>
           ELSE LET name == fully_normalize_name(astext(current_node))
                    section == SectionOf(current_node)
                IN /\ nodes' = [nodes EXCEPT ![section].names = Append(@, name)]
                   /\ implicit' = Append(implicit, section)
                   /\ current_node' = section
                   /\ Advance(ev, None)
                   /\ UNCHANGED <<phase, error>>
        /\ UNCHANGED <<document, level_to_elem, warnings, input, ended>>

(***************************************************************************)
(* The other handlers (lines 94-187).                                       *)
(***************************************************************************)
\* self.current_node.append(n) for a new node n, without a move of the cursor.
\* kids are the nodes created under n before it is appended.
Emit(ev, rec, kids) ==
    IF current_node = None
    THEN /\ Raise(ev, "AttributeError")
         /\ UNCHANGED <<nodes, current_node>>
    ELSE LET n == Len(nodes) + 1
             store == Append(nodes, rec) \o kids
             linked == [i \in 1..Len(store) |->
                          IF i = n
                          THEN [store[i] EXCEPT !.children = [k \in 1..Len(kids) |-> n + k]]
                          ELSE IF i > n THEN [store[i] EXCEPT !.parent = n]
                          ELSE store[i]]
         IN /\ nodes' = NodeAppend(linked, current_node, n)
            /\ Advance(ev, n)
            /\ UNCHANGED <<phase, error, current_node>>

\* self.current_node.append(n); self.current_node = n
Descend(ev, rec) ==
    IF current_node = None
    THEN /\ Raise(ev, "AttributeError")
         /\ UNCHANGED <<nodes, current_node>>
    ELSE LET n == Len(nodes) + 1
         IN /\ nodes' = NodeAppend(Append(nodes, rec), current_node, n)
            /\ current_node' = n
            /\ Advance(ev, n)
            /\ UNCHANGED <<phase, error>>

Frame == UNCHANGED <<document, level_to_elem, warnings, implicit, input, ended>>

\* docutils Text(data)
TextNode(data) == [NewNode("Text") EXCEPT !.lit = data]

\* docutils TextElement(rawsource, text): a Text child unless text is empty.
TextKids(text) == IF text = <<>> THEN <<>> ELSE <<TextNode(text)>>

visit_text ==
    \E ev \in Walker :
        /\ Fn(ev) = "visit_text"
        /\ Emit(ev, TextNode(ev.node.literal), <<>>)
        /\ Frame

visit_softbreak ==
    \E ev \in Walker :
        /\ Fn(ev) = "visit_softbreak"
        /\ Emit(ev, TextNode(<<"\n">>), <<>>)
        /\ Frame

visit_paragraph ==
    \E ev \in Walker :
        /\ Fn(ev) = "visit_paragraph"
        /\ Descend(ev, [NewNode("paragraph") EXCEPT !.lit = ev.node.literal,
                                                    !.line = ev.node.line])
        /\ Frame

visit_emph ==
    \E ev \in Walker :
        /\ Fn(ev) = "visit_emph"
        /\ Descend(ev, NewNode("emphasis"))
        /\ Frame

visit_strong ==
    \E ev \in Walker :
        /\ Fn(ev) = "visit_strong"
        /\ Descend(ev, NewNode("strong"))
        /\ Frame

\* A variant of TitleAttrs that copies the title whatever it is.
TitleAttrs_always(mdnode, key) == {<<key, mdnode.title>>}

\* lines 127-129: the title is copied when it is not empty.
TitleAttrs(mdnode, key) == IF mdnode.title # <<>> THEN {<<key, mdnode.title>>} ELSE {}

\* A variant of LinkNodes that forgets to put inner_node under ref_node.
LinkNodes_apart(ns, ref_node, inner_node) == ns

\* line 130
LinkNodes(ns, ref_node, inner_node) == NodeAppend(ns, ref_node, inner_node)

\* lines 116-133.  inner_node is created first, then ref_node, which takes
\* inner_node as its child; ref_node is appended to the cursor and the cursor
\* becomes inner_node.
visit_link ==
    \E ev \in Walker :
        /\ Fn(ev) = "visit_link"
        /\ LET mdnode == ev.node
               inner_node == Len(nodes) + 1
               ref_node == Len(nodes) + 2
               created == nodes \o
                   <<[NewNode("reference") EXCEPT
                         !.attrs = {<<"refuri", mdnode.destination>>}
                                   \cup TitleAttrs(mdnode, "title")],
                     [NewNode("pending_xref") EXCEPT
                         !.attrs = {<<"reftarget", mdnode.destination>>,
                                    <<"reftype", <<"any">> >>,
                                    <<"refexplicit", TRUE>>, <<"refwarn", TRUE>>}
                                   \cup TitleAttrs(mdnode, "title")]>>
           IN IF current_node = None
              THEN /\ Raise(ev, "AttributeError")
                   /\ UNCHANGED <<nodes, current_node>>
              ELSE /\ nodes' = NodeAppend(LinkNodes(created, ref_node, inner_node),
                                          current_node, ref_node)
                   /\ current_node' = inner_node
                   /\ Advance(ev, ref_node)
                   /\ UNCHANGED <<phase, error>>
        /\ Frame

visit_image ==
    \E ev \in Walker :
        /\ Fn(ev) = "visit_image"
        /\ Descend(ev, [NewNode("image") EXCEPT
                           !.attrs = {<<"uri", ev.node.destination>>}
                                     \cup TitleAttrs(ev.node, "alt")])
        /\ Frame

visit_list ==
    \E ev \in Walker :
        /\ Fn(ev) = "visit_list"
        /\ Descend(ev, [NewNode(IF ev.node.list_type = "bullet"
                                THEN "bullet_list" ELSE "enumerated_list")
                           EXCEPT !.line = ev.node.line])
        /\ Frame

visit_item ==
    \E ev \in Walker :
        /\ Fn(ev) = "visit_item"
        /\ Descend(ev, [NewNode("list_item") EXCEPT !.line = ev.node.line])
        /\ Frame

\* A variant of CodeText that cuts every trailing newline.
RECURSIVE CodeText_rstrip(_)
CodeText_rstrip(literal) ==
    IF literal # <<>> /\ literal[Len(literal)] = "\n"
    THEN CodeText_rstrip(SubSeq(literal, 1, Len(literal) - 1))
    ELSE literal

\* lines 167-169: one trailing newline is cut.
CodeText(literal) ==
    IF literal # <<>> /\ literal[Len(literal)] = "\n"
    THEN SubSeq(literal, 1, Len(literal) - 1)
    ELSE literal

\* lines 164-166
CodeKwargs(mdnode) ==
    IF mdnode.is_fenced /\ mdnode.info # <<>> THEN {<<"language", mdnode.info>>} ELSE {}

visit_code_block ==
    \E ev \in Walker :
        /\ Fn(ev) = "visit_code_block"
        /\ LET text == CodeText(ev.node.literal)
           IN Emit(ev, [NewNode("literal_block") EXCEPT !.lit = text,
                                                        !.attrs = CodeKwargs(ev.node)],
                   TextKids(text))
        /\ Frame

visit_block_quote ==
    \E ev \in Walker :
        /\ Fn(ev) = "visit_block_quote"
        /\ Descend(ev, [NewNode("block_quote") EXCEPT !.line = ev.node.line])
        /\ Frame

\* lines 179-184: line is set when the node has a source position.
visit_html_inline ==
    \E ev \in Walker :
        /\ Fn(ev) = "visit_html_inline"
        /\ Emit(ev, [NewNode("raw") EXCEPT !.lit = ev.node.literal,
                                           !.attrs = {<<"format", <<"html">> >>},
                                           !.line = ev.node.line],
                TextKids(ev.node.literal))
        /\ Frame

visit_thematic_break ==
    \E ev \in Walker :
        /\ Fn(ev) = "visit_thematic_break"
        /\ Emit(ev, NewNode("transition"), <<>>)
        /\ Frame

(***************************************************************************)
(* Specifications.  The parser is constructed (__init__, lines 19-20) and   *)
(* then parses documents one after another.                                 *)
(***************************************************************************)
ConstructedFor(budget, types, parses, code_blocks) ==
    /\ phase = "idle"
    /\ error = ""
    /\ document = None
    /\ current_node = None
    /\ level_to_elem = <<>>
    /\ nodes = <<>>
    /\ open = <<>>
    /\ events = <<>>
    /\ warnings = <<>>
    /\ implicit = <<>>
    /\ input = [budget |-> budget, types |-> types, parses |-> parses,
                code_blocks |-> code_blocks]
    /\ ended = <<>>

\* A parser that parses one document.
Constructed(budget, types) == ConstructedFor(budget, types, 1, PlainCodeBlocks)

Init == Constructed(MaxNodes, BlockTypes \cup InlineTypes)

Next ==
    \/ Parse
    \/ Finish
    \/ default_visit
    \/ default_depart
    \/ visit_heading
    \/ depart_heading
    \/ visit_text
    \/ visit_softbreak
    \/ visit_paragraph
    \/ visit_emph
    \/ visit_strong
    \/ visit_link
    \/ visit_image
    \/ visit_list
    \/ visit_item
    \/ visit_code_block
    \/ visit_block_quote
    \/ visit_html_inline
    \/ visit_thematic_break

Spec == Init /\ [][Next]_vars

\* The same program on ASTs of one more node.
InitDeep == Constructed(MaxDeepNodes, BlockTypes \cup InlineTypes)

SpecDeep == InitDeep /\ [][Next]_vars

\* Documents made of top-level headings and paragraphs that hold text only.
InitTopLevel == Constructed(MaxTopLevelNodes, {"heading", "paragraph", "text"})

NextTopLevel ==
    \/ Parse
    \/ Finish
    \/ default_visit
    \/ default_depart
    \/ visit_heading
    \/ depart_heading
    \/ visit_text
    \/ visit_paragraph

SpecTopLevel == InitTopLevel /\ [][NextTopLevel]_vars

\* One parser, several documents one after another.
InitReparse ==
    ConstructedFor(MaxReparseNodes, BlockTypes \cup InlineTypes, MaxParses,
                   PlainCodeBlocks)

SpecReparse == InitReparse /\ [][Next]_vars

\* Documents made of code blocks of every kind.
InitCodeBlock == ConstructedFor(MaxCodeNodes, {"code_block"}, 1, AllCodeBlocks)

NextCodeBlock ==
    \/ Parse
    \/ Finish
    \/ default_visit
    \/ default_depart
    \/ visit_code_block

SpecCodeBlock == InitCodeBlock /\ [][NextCodeBlock]_vars

(***************************************************************************)
(* Properties.                                                              *)
(***************************************************************************)
Last(q) == q[Len(q)]

\* A step that dispatched one event; the event is Last(events').
Dispatched == Len(events') = Len(events) + 1

\* The k-th ancestor of node n, None above the root.
RECURSIVE Up(_, _)
Up(n, k) ==
    IF k = 0 THEN n
    ELSE LET m == Up(n, k - 1) IN IF m = None THEN None ELSE nodes[m].parent

UnderDocument(n) == \E k \in 0..Len(nodes) : Up(n, k) = document

\* The heading-enter events that made a section.
HeadingEnters ==
    {i \in 1..Len(events) : events[i].fn = "visit_heading" /\ events[i].made # None}

\* The section of the most recent heading before event i whose level is
\* below that of heading i, the document when there is none.
NearestLower(i) ==
    LET lower == {j \in HeadingEnters :
                    j < i /\ events[j].node.level < events[i].node.level}
    IN IF lower = {} THEN document ELSE events[Max(lower)].made

\* C1: the section of every heading is a child of the section of the most
\* recent earlier heading of a strictly lower level, or of the document when
\* there is none; right after a heading of level L is entered, its section is
\* the last child of that parent, no section of an earlier heading is left
\* open at a level >= L, and no error was raised, whatever levels were skipped.
C1_HeadingParent ==
    /\ \A i \in HeadingEnters : nodes[events[i].made].parent = NearestLower(i)
    /\ (events # <<>> /\ Last(events).fn = "visit_heading") =>
          /\ phase = "walking"
          /\ Last(events).made # None
          /\ LET section == Last(events).made
                 level == Last(events).node.level
             IN /\ Last(nodes[nodes[section].parent].children) = section
                /\ \A k \in DOMAIN level_to_elem :
                      k >= level => level_to_elem[k] = section
                /\ level_to_elem[level] = section

\* Headings of levels 1, 3, 2 in a row: the H3 and the H2 sections are both
\* children of the H1 section.
C1_Witness ==
    \E i, j, k \in HeadingEnters :
        /\ i < j /\ j < k
        /\ events[i].node.level = 1
        /\ events[j].node.level = 3
        /\ events[k].node.level = 2
        /\ nodes[events[j].made].parent = events[i].made
        /\ nodes[events[k].made].parent = events[i].made

\* The containers that have a visit_ method and leave through default_depart.
DefaultClosed == {"paragraph", "emph", "strong", "link", "image", "list", "item",
                  "block_quote"}

\* C2: when a container with a visit_ method leaves through default_depart,
\* the cursor is again the node it was just before the container was entered.
C2_CursorRestored ==
    [][(/\ Dispatched
        /\ ~Last(events').entering
        /\ Last(events').node.t \in DefaultClosed)
       => current_node' = events[Last(open)].before]_vars

\* C3: at every heading exit the cursor is the title made by the matching
\* heading enter, so depart_heading's assertion holds.
C3_TitleAtHeadingExit ==
    [][(Dispatched /\ Last(events').fn = "depart_heading")
       => /\ current_node = nodes[events[Last(open)].made].children[1]
          /\ error' # "AssertionError"]_vars

\* C4: during a conversion key 0 of the map is the document, and the node at
\* every other key is a child of the node at the next smaller key.
C4_LevelMapChain ==
    phase # "idle" =>
        /\ 0 \in DOMAIN level_to_elem
        /\ level_to_elem[0] = document
        /\ \A k \in DOMAIN level_to_elem \ {0} :
              nodes[level_to_elem[k]].parent =
                 level_to_elem[Max({j \in DOMAIN level_to_elem : j < k})]

\* A map of three entries over skipped levels.
C4_Witness ==
    /\ phase = "walking"
    /\ DOMAIN level_to_elem = {0, 1, 3}
    /\ nodes[level_to_elem[3]].parent = level_to_elem[1]

\* C5: after setup_sections key 0 stays in the map and stays the document, no
\* heading fails to find a parent (max() never gets an empty sequence), and
\* every section sits under the document.
C5_ParentAlwaysFound ==
    phase # "idle" =>
        /\ 0 \in DOMAIN level_to_elem
        /\ level_to_elem[0] = document
        /\ error # "ValueError"
        /\ \A i \in 1..Len(events) :
              events[i].fn = "visit_heading" => events[i].made # None
        /\ \A n \in 1..Len(nodes) : nodes[n].kind = "section" => UnderDocument(n)

\* Three headings, the later ones pruning and overwriting earlier entries.
C5_Witness ==
    /\ Cardinality(HeadingEnters) = 3
    /\ DOMAIN level_to_elem = {0, 1}
    /\ \A i \in HeadingEnters : UnderDocument(events[i].made)

\* The literals of the text events that directly follow event i.
TextRun(i) ==
    LET m == Max({k \in 0..(Len(events) - i) :
                    \A q \in 1..k : events[i + q].fn = "visit_text"})
    IN [q \in 1..m |-> events[i + q].node.literal]

\* The texts of the children of node n, which are all Text nodes.
ChildTexts(n) ==
    [q \in 1..Len(nodes[n].children) |-> nodes[nodes[n].children[q]].lit]

OnlyTextChildren(n) ==
    \A q \in 1..Len(nodes[n].children) : nodes[nodes[n].children[q]].kind = "Text"

\* C6: in a document of top-level headings and paragraphs that hold text, the
\* first child of every heading's section is its title, which holds the
\* heading's text, and every paragraph holds its text and is a child of the
\* section of the most recent heading before it, or of the document.
C6_TopLevelTree ==
    \A i \in 1..Len(events) :
        /\ events[i].fn = "visit_heading" =>
              /\ events[i].made # None
              /\ LET title == nodes[events[i].made].children[1]
                 IN /\ nodes[title].kind = "title"
                    /\ OnlyTextChildren(title)
                    /\ ChildTexts(title) = TextRun(i)
        /\ events[i].fn = "visit_paragraph" =>
              /\ events[i].made # None
              /\ LET p == events[i].made
                     before == {j \in HeadingEnters : j < i}
                 IN /\ nodes[p].kind = "paragraph"
                    /\ nodes[p].parent =
                          IF before = {} THEN document ELSE events[Max(before)].made
                    /\ OnlyTextChildren(p)
                    /\ ChildTexts(p) = TextRun(i)

\* "# T" then a paragraph "b ": document -> section(names "t") ->
\* [title -> Text "T", paragraph -> Text "b "].
C6_Witness ==
    /\ phase = "done"
    /\ Len(nodes) = 6
    /\ nodes[document].children = <<3>>
    /\ nodes[3].kind = "section" /\ nodes[3].names = << <<"t">> >>
    /\ nodes[3].children = <<2, 5>>
    /\ nodes[2].kind = "title" /\ nodes[2].children = <<4>>
    /\ nodes[4].kind = "Text" /\ nodes[4].lit = <<"T">>
    /\ nodes[5].kind = "paragraph" /\ nodes[5].children = <<6>>
    /\ nodes[6].kind = "Text" /\ nodes[6].lit = <<"b", " ">>

\* The places (parent, position) at which node n is a child.
PlacesOf(n) ==
    {pl \in (1..Len(nodes)) \X (1..Len(nodes)) :
        pl[2] <= Len(nodes[pl[1]].children) /\ nodes[pl[1]].children[pl[2]] = n}

\* C7: the output is a single-owner tree: the document has no parent, every
\* other node is a child at exactly one place, which is in its parent, no
\* node is its own ancestor, and every node is reachable from the document.
C7_SingleOwnerTree ==
    \A n \in 1..Len(nodes) :
        /\ n = document => nodes[n].parent = None /\ PlacesOf(n) = {}
        /\ n # document =>
              /\ nodes[n].parent \in 1..Len(nodes)
              /\ Cardinality(PlacesOf(n)) = 1
              /\ \A pl \in PlacesOf(n) : pl[1] = nodes[n].parent
        /\ \A k \in 1..Len(nodes) : Up(n, k) # n
        /\ UnderDocument(n)

\* A tree with a section under the document and a link in its title.
C7_Witness ==
    /\ Len(nodes) >= 6
    /\ \E n \in 1..Len(nodes) : nodes[n].kind = "section"
    /\ \E n \in 1..Len(nodes) :
          /\ nodes[n].kind = "reference"
          /\ nodes[nodes[n].parent].kind = "pending_xref"
          /\ nodes[n].children # <<>>

\* A type tag with neither a visit_ nor a depart_ method.
NoHandler(t) == ~HasAttr("visit_" \o Lower(t)) /\ ~HasAttr("depart_" \o Lower(t))

\* C8: an event of a node whose type has no handler goes to the default
\* handler of its direction, raises nothing, and leaves the output tree,
\* the cursor and the map as they were, for a leaf and for a container.
C8_UnhandledSkipped ==
    [][(Dispatched /\ NoHandler(Last(events').node.t))
       => /\ Last(events').fn =
                IF Last(events').entering THEN "default_visit" ELSE "default_depart"
          /\ phase' = "walking"
          /\ error' = ""
          /\ nodes' = nodes
          /\ current_node' = current_node
          /\ level_to_elem' = level_to_elem]_vars

\* An unhandled container was entered and left below the document, with an
\* unhandled leaf inside it.
C8_Witness ==
    \E i, j, k \in 1..Len(events) :
        /\ i < j /\ j < k
        /\ events[i].node.t = "custom_block" /\ events[i].entering
        /\ events[j].node.t = "html_block"
        /\ events[k].node.t = "custom_block" /\ ~events[k].entering
        /\ phase = "walking"
        /\ warnings # <<>>

\* C9: depart_heading with a cursor that is no title raises AssertionError,
\* which ends the conversion, before it has changed anything: no name is
\* added, no implicit target is noted, the cursor stays.
C9_FatalBeforeEffect ==
    [][(/\ Dispatched
        /\ Last(events').fn = "depart_heading"
        /\ ~IsInstance(current_node, "title"))
       => /\ phase' = "failed"
          /\ error' = "AssertionError"
          /\ nodes' = nodes
          /\ implicit' = implicit
          /\ current_node' = current_node]_vars

\* A conversion that ended on the assertion of depart_heading.
C9_Witness ==
    /\ phase = "failed"
    /\ error = "AssertionError"
    /\ Last(events).fn = "depart_heading"
    /\ current_node # None
    /\ nodes[current_node].kind # "title"

\* C10: when a container leaves through default_depart, the warning is
\* emitted exactly if its enter event went to default_visit; with the warning
\* the conversion goes on, without it the cursor moves to its parent; every
\* warning is about a container.
C10_SkippedWarning ==
    [][(Dispatched /\ Last(events').fn = "default_depart")
       => LET warned == warnings' # warnings
          IN /\ warned <=> events[Last(open)].fn = "default_visit"
             /\ warned => /\ warnings' = Append(warnings, Last(events').node.t)
                          /\ phase' = "walking"
             /\ ~warned => /\ current_node # None
                           /\ current_node' = nodes[current_node].parent
             /\ \A w \in 1..Len(warnings') : warnings'[w] \in Containers]_vars

\* C11: the first event of every conversion of a parser, the first one or a
\* later one, after a finished or an aborted conversion, finds the map equal
\* to {0 -> document}, the cursor on the document and the document empty.
C11_FreshStart ==
    [][(Dispatched /\ events = <<>>)
       => /\ level_to_elem = (0 :> document)
          /\ current_node = document
          /\ nodes = <<NewNode("document")>>]_vars

\* A second conversion, after one that AssertionError aborted, has entered a
\* heading, whose section hangs under the new document.
C11_Witness ==
    /\ ended = <<"failed">>
    /\ phase = "walking"
    /\ \E i \in HeadingEnters : nodes[events[i].made].parent = document
    /\ level_to_elem[0] = document
    /\ Cardinality(DOMAIN level_to_elem) = 2

\* The values node n of the store ns has for attribute key.
AttrValues(ns, n, key) == {a[2] : a \in {b \in ns[n].attrs : b[1] = key}}

\* The title attribute of node n is the link's title when that is not empty,
\* and is absent otherwise.
TitleCopied(ns, n, mdnode) ==
    AttrValues(ns, n, "title") = IF mdnode.title # <<>> THEN {mdnode.title} ELSE {}

\* C12: a link enter event appends to the cursor one new pending_xref node
\* whose reftarget is the destination and whose only child is a new reference
\* node whose refuri is the destination; both carry the title exactly when the
\* link has a non-empty one; the cursor becomes the reference node, and the
\* node of every child event of a link is attached to that reference node.
C12_LinkWrapper ==
    [][/\ (Dispatched /\ Last(events').fn = "visit_link") =>
            LET mdnode == Last(events').node
                ref_node == Last(events').made
            IN /\ phase' = "walking"
               /\ current_node # None
               /\ ref_node \in (Len(nodes) + 1)..Len(nodes')
               /\ nodes'[current_node].children =
                     Append(nodes[current_node].children, ref_node)
               /\ nodes'[ref_node].kind = "pending_xref"
               /\ nodes'[ref_node].parent = current_node
               /\ AttrValues(nodes', ref_node, "reftarget") = {mdnode.destination}
               /\ TitleCopied(nodes', ref_node, mdnode)
               /\ Len(nodes'[ref_node].children) = 1
               /\ LET inner_node == nodes'[ref_node].children[1]
                  IN /\ inner_node \in (Len(nodes) + 1)..Len(nodes')
                     /\ nodes'[inner_node].kind = "reference"
                     /\ nodes'[inner_node].parent = ref_node
                     /\ AttrValues(nodes', inner_node, "refuri") = {mdnode.destination}
                     /\ TitleCopied(nodes', inner_node, mdnode)
                     /\ current_node' = inner_node
       /\ (/\ Dispatched
           /\ Last(events').entering
           /\ open # <<>>
           /\ Top.t = "link"
           /\ Last(events').made # None) =>
            nodes'[Last(events').made].parent =
               nodes[events[Last(open)].made].children[1]]_vars

\* "[T](u "t")" in a paragraph: the wrapper and the reference both carry the
\* title, and the text hangs under the reference.
C12_Witness ==
    \E n \in 1..Len(nodes) :
        /\ nodes[n].kind = "reference"
        /\ AttrValues(nodes, n, "title") = {<<"t">>}
        /\ AttrValues(nodes, n, "refuri") = {<<"u">>}
        /\ Len(nodes[n].children) = 1
        /\ nodes[nodes[n].children[1]].lit = <<"T">>
        /\ nodes[nodes[n].parent].kind = "pending_xref"
        /\ nodes[nodes[n].parent].children = <<n>>
        /\ AttrValues(nodes, nodes[n].parent, "title") = {<<"t">>}
        /\ nodes[nodes[nodes[n].parent].parent].kind = "paragraph"

EndsWithNewline(literal) == literal # <<>> /\ Last(literal) = "\n"

\* C13: the text of the literal_block of every code block is the literal less
\* one trailing newline when the literal ends with a newline, and the literal
\* itself otherwise; the node has a language, the info string, exactly when
\* the block is fenced and the info string is not empty.
C13_CodeBlock ==
    \A i \in 1..Len(events) :
        events[i].fn = "visit_code_block" =>
            /\ events[i].made # None
            /\ LET mdnode == events[i].node
                   node == events[i].made
                   text == nodes[node].lit
               IN /\ nodes[node].kind = "literal_block"
                  /\ EndsWithNewline(mdnode.literal) => Append(text, "\n") = mdnode.literal
                  /\ ~EndsWithNewline(mdnode.literal) => text = mdnode.literal
                  /\ ChildTexts(node) = IF text = <<>> THEN <<>> ELSE <<text>>
                  /\ AttrValues(nodes, node, "language") =
                        IF mdnode.is_fenced /\ mdnode.info # <<>>
                        THEN {mdnode.info} ELSE {}

\* A fenced block "p" with literal "a\n" gives text "a" with language "p"; a
\* block with literal "a\n\n" gives text "a\n".
C13_Witness ==
    \E i, j \in 1..Len(events) :
        /\ events[i].fn = "visit_code_block"
        /\ events[i].node.is_fenced
        /\ events[i].node.info = <<"p">>
        /\ events[i].node.literal = <<"a", "\n">>
        /\ nodes[events[i].made].lit = <<"a">>
        /\ nodes[events[i].made].attrs = {<<"language", <<"p">> >>}
        /\ events[j].fn = "visit_code_block"
        /\ events[j].node.literal = <<"a", "\n", "\n">>
        /\ nodes[events[j].made].lit = <<"a", "\n">>
        /\ nodes[events[j].made].attrs = {}

\* C14: after add_section(section, level), called by a heading enter event
\* with level >= 1, the map holds the new section at level, level is its
\* greatest key, and the entries below level are the ones before the call; an
\* entry that was at level is replaced.
C14_AddSection ==
    [][(Dispatched /\ Last(events').fn = "visit_heading" /\ phase' = "walking")
       => LET level == Last(events').node.level
              section == Last(events').made
          IN /\ level >= 1
             /\ section \in (Len(nodes) + 1)..Len(nodes')
             /\ nodes'[section].kind = "section"
             /\ level \in DOMAIN level_to_elem'
             /\ level_to_elem'[level] = section
             /\ \A k \in DOMAIN level_to_elem' : k <= level
             /\ \A k \in DOMAIN level_to_elem :
                  k < level => /\ k \in DOMAIN level_to_elem'
                               /\ level_to_elem'[k] = level_to_elem[k]
             /\ DOMAIN level_to_elem' =
                  {k \in DOMAIN level_to_elem : k < level} \cup {level}]_vars

\* Headings of levels 1, 2 and 1: the third replaces the entry of the first
\* and closes the second.
C14_Witness ==
    /\ Len(events) = 6
    /\ events[2].fn = "visit_heading" /\ events[2].node.level = 1
    /\ events[4].fn = "visit_heading" /\ events[4].node.level = 2
    /\ events[6].fn = "visit_heading" /\ events[6].node.level = 1
    /\ DOMAIN level_to_elem = {0, 1}
    /\ level_to_elem[1] = events[6].made
    /\ level_to_elem[1] # events[2].made

\* The texts of all Text nodes below node n, in document order.
RECURSIVE AllText(_)
RECURSIVE AllTextOf(_, _)
AllTextOf(kids, i) ==
    IF i > Len(kids) THEN <<>> ELSE AllText(kids[i]) \o AllTextOf(kids, i + 1)

AllText(n) ==
    IF nodes[n].kind = "Text" THEN nodes[n].lit ELSE AllTextOf(nodes[n].children, 1)

\* C15: a heading exit that succeeds moves the cursor to the section made by
\* the matching heading enter, the parent of the title, and appends one name
\* to that section and to no other node: the normalised text of all the Text
\* nodes below the title, at any depth.
C15_HeadingName ==
    [][(Dispatched /\ Last(events').fn = "depart_heading" /\ phase' = "walking")
       => LET section == events[Last(open)].made
              name == fully_normalize_name(AllText(nodes[section].children[1]))
          IN /\ current_node' = section
             /\ nodes[current_node].parent = section
             /\ nodes' = [nodes EXCEPT ![section].names = Append(@, name)]]_vars

\* C17: during a conversion the cursor is a node of the tree under the
\* document, never None, whatever the nesting of headings in block quotes,
\* lists and list items, and no handler fails on a missing cursor.
C17_CursorInTree ==
    phase # "idle" =>
        /\ current_node # None
        /\ UnderDocument(current_node)
        /\ error # "AttributeError"

\* C18: between two events, a cursor that is the document or a section is the
\* node at the greatest key of the map, the section of the most recent heading
\* that is still open.
C18_CursorIsInnermostSection ==
    (/\ phase = "walking"
     /\ current_node # None
     /\ nodes[current_node].kind \in {"document", "section"})
    => current_node = level_to_elem[Max(DOMAIN level_to_elem)]

LeafHandlers == {"visit_text", "visit_softbreak", "visit_code_block",
                 "visit_html_inline", "visit_thematic_break"}

\* C16: a leaf handler (text, softbreak, code_block, html_inline,
\* thematic_break) appends one new node as the last child of the cursor, and
\* leaves the cursor, the map and the parent and children of every other node
\* as they were.
C16_LeafAppends ==
    [][(Dispatched /\ Last(events').fn \in LeafHandlers)
       => LET n == Last(events').made
          IN /\ phase' = "walking"
             /\ current_node # None
             /\ n = Len(nodes) + 1
             /\ nodes'[n].parent = current_node
             /\ nodes'[current_node].children = Append(nodes[current_node].children, n)
             /\ \A k \in 1..Len(nodes) :
                  /\ nodes'[k].parent = nodes[k].parent
                  /\ k # current_node => nodes'[k].children = nodes[k].children
             /\ current_node' = current_node
             /\ level_to_elem' = level_to_elem]_vars

====
